---- MODULE Spec2Model ----
(***************************************************************************)
(* A model of the StitchAPI client (stitch_api/stitch_api.py) and of the   *)
(* request builders it calls (stitch_api/api/*.py).                        *)
(*                                                                         *)
(* Every facade method is one atomic action.  The remote service is the    *)
(* environment: each call observes a source listing, a stream listing and  *)
(* HTTP status codes drawn from small sets.  A Python exception is the     *)
(* field err of the call context; every step of a handler is skipped once  *)
(* err is set, which is how an exception unwinds the handler.              *)
(*                                                                         *)
(* Strings that the code parses (the blacklist configuration) are          *)
(* sequences of tokens: a name, "," or ".".                                *)
(***************************************************************************)
EXTENDS Integers, Sequences, FiniteSets, TLC

VARIABLES client, write_blacklist, logged_in_internal, logins, last

vars == <<client, write_blacklist, logged_in_internal, logins, last>>

(***************************************************************************)
(* Bounds of the model.                                                    *)
(***************************************************************************)
MaxSources == 2      \* records in the remote source listing
MaxStreams == 2      \* records in a remote stream listing
MaxLogins == 2       \* sessions opened (POST /session answered) in one client lifetime
MaxTime == 7         \* the clock and the date arguments range over 0..MaxTime
DayLen == 2          \* clock ticks in one day

(***************************************************************************)
(* Values.                                                                 *)
(***************************************************************************)
None == "None"

SourceNames == {"a", "b"}
ArgNames == {"", "a", "b"}
ArgStreamNames == {"", "s", "u"}

RECURSIVE SeqsOfLen(_, _)
SeqsOfLen(S, n) ==
    IF n = 0 THEN {<<>>}
    ELSE {Append(q, x) : q \in SeqsOfLen(S, n - 1), x \in S}

\* The remote source listing: the record at position i has id i.
SourceListings ==
    {[i \in 1..MaxSources |-> [id |-> i, name |-> q[i][1], deleted_at |-> q[i][2]]] :
        q \in SeqsOfLen(SourceNames \X {None, "2020"}, MaxSources)}

\* A remote stream listing: the record at position i has stream_id i; the
\* names alternate, so that a longer listing repeats a name.
StreamNameAt(i) == IF i % 2 = 1 THEN "s" ELSE "t"

StreamListings ==
    {[i \in 1..MaxStreams |->
         [stream_id |-> i, stream_name |-> StreamNameAt(i), selected |-> q[i]]] :
        q \in SeqsOfLen(BOOLEAN, MaxStreams)}

\* The listings the operations that only resolve a name are run against:
\* no record after the first is deleted.
ResolverListings ==
    {l \in SourceListings : \A i \in 2..MaxSources : l[i].deleted_at = None}

AnySources == CHOOSE l \in SourceListings : TRUE
AnyStreams == CHOOSE l \in StreamListings : TRUE

\* The status codes the service answers with.
Statuses == {200, 304, 404, 500}

\* The environment of one call: request number failAt (0: none) is answered
\* with status and with a body that is JSON or not (decodes), every other
\* request with 200 and a JSON body.
Injections(n) == {[failAt |-> 0, status |-> 200, decodes |-> TRUE]} \cup
                 [failAt : 1..n, status : {304}, decodes : BOOLEAN] \cup
                 [failAt : 1..n, status : Statuses \ {200, 304}, decodes : {FALSE}]

\* The clock at a call, and at a second reading of it during the call.
Now == MaxTime - DayLen - 1

Env(srcs, strs, inj, now2) ==
    [sources |-> srcs, streams |-> strs, failAt |-> inj.failAt,
     status |-> inj.status, decodes |-> inj.decodes, now |-> Now, now2 |-> now2]

(***************************************************************************)
(* The call context.                                                       *)
(***************************************************************************)
NoVal == [kind |-> "none", body |-> <<>>]

Ctx0 == [wb |-> write_blacklist, logged_in |-> logged_in_internal,
         logins |-> logins, reqs |-> <<>>, verified |-> <<>>,
         loads |-> <<>>, sid |-> 0, stid |-> 0, err |-> "", code |-> 0,
         val |-> NoVal]

Ok(ctx) == ctx.err = ""

Raise(ctx, e) == [ctx EXCEPT !.err = e, !.val = NoVal]

Return(ctx, v) == [ctx EXCEPT !.val = v]

InSeq(x, s) == \E i \in 1..Len(s) : s[i] = x

\* The element of a singleton set.  { F(c) : c \in {e} } evaluates e once
\* and names its value c.
Only(S) == CHOOSE v \in S : TRUE

\* [i for i in records if i[field] == value]
RECURSIVE WithField(_, _, _)
WithField(records, field, value) ==
    IF records = <<>> THEN <<>>
    ELSE (IF Head(records)[field] = value THEN <<Head(records)>> ELSE <<>>)
            \o WithField(Tail(records), field, value)

(***************************************************************************)
(* WriteBlacklist: source_entries is a list of source ids, stream_entries  *)
(* a defaultdict(list) from source id to stream ids, here a function whose *)
(* domain is the set of keys.                                              *)
(***************************************************************************)
NoBlacklist == [present |-> FALSE, source_entries |-> <<>>, stream_entries |-> <<>>]

WriteBlacklist(source_entries, stream_entries) ==
    [present |-> TRUE, source_entries |-> source_entries,
     stream_entries |-> stream_entries]

\* stream_entries[key] of a defaultdict(list): a missing key is inserted
\* with an empty list.
DefaultGet(entries, key) ==
    IF key \in DOMAIN entries THEN entries
    ELSE [k \in DOMAIN entries \cup {key} |->
             IF k = key THEN <<>> ELSE entries[k]]

\* WriteBlacklist.verify_request: the error it raises and stream_entries
\* after the call.
verify_request(wb, source_id, stream_id) ==
    IF InSeq(source_id, wb.source_entries)
    THEN [err |-> "Blacklisted", stream_entries |-> wb.stream_entries]
    ELSE IF stream_id \in DOMAIN wb.stream_entries
    THEN LET e == DefaultGet(wb.stream_entries, source_id)
         IN  [err |-> IF InSeq(stream_id, e[source_id]) THEN "Blacklisted" ELSE "",
              stream_entries |-> e]
    ELSE [err |-> "", stream_entries |-> wb.stream_entries]

(***************************************************************************)
(* The HTTP session.                                                       *)
(***************************************************************************)
\* assert_status_hook: response.raise_for_status() raises HTTPError for a
\* status in 400..599 and returns for every other status.
raise_for_status(status) == status >= 400 /\ status < 600

\* self.client.<method>(endpoint): the request is recorded, and the response
\* hook raises on the statuses raise_for_status rejects.
Http(ctx, env, method, kind, sid, stid, from, to) ==
    LET st == IF Len(ctx.reqs) + 1 = env.failAt THEN env.status ELSE 200
        c1 == [ctx EXCEPT !.reqs = Append(@, [method |-> method, kind |-> kind,
                                               sid |-> sid, stid |-> stid,
                                               from |-> from, to |-> to,
                                               status |-> st])]
    IN  IF raise_for_status(st)
        THEN [c1 EXCEPT !.err = "RemoteError", !.code = st, !.val = NoVal]
        ELSE [c1 EXCEPT !.code = st]

\* response.json(): what the service answers on each endpoint.
ResponseJson(env, req) ==
    CASE req.kind = "sources" -> env.sources
      [] req.kind = "streams" -> env.streams
      [] req.kind = "loading-reports" -> [batches |-> << <<req.from, req.to>> >>]
      [] req.kind = "daily" -> [stats |-> [i \in 1..MaxSources |-> [connection_id |-> i]]]
      [] OTHER -> [endpoint |-> req.kind]

\* StitchAPI._login: logins counts the POST /session requests that were
\* answered without an error.  The flag _logged_in_internal is not assigned.
login(ctx, env) ==
    Only({IF Ok(c1) THEN [c1 EXCEPT !.logins = @ + 1] ELSE c1 :
          c1 \in {Http(ctx, env, "post", "session", 0, 0, 0, 0)}})

\* internal_login_required: the wrapper's part before the wrapped method.
internal_login_required(ctx, env) ==
    IF ~Ok(ctx) THEN ctx
    ELSE IF ~ctx.logged_in THEN login(ctx, env)
    ELSE ctx

(***************************************************************************)
(* The request builders: the keyword parameters each one names, whether it *)
(* takes **kwargs, and the descriptor it returns.                          *)
(***************************************************************************)
BuilderParams(api) ==
    CASE api = "Source.reset" -> {"source_id", "client_id"}
      [] api = "Source.daily_report" -> {"client_id"}
      [] api = "Stream.reset" -> {"source_id", "stream_id", "client_id"}
      [] api = "Stream.get_load_data" ->
            {"source_id", "stream_name", "time_range_start", "time_range_end",
             "limit", "offset", "client_id"}
      [] api = "Source.update" -> {"source_id", "payload"}
      [] api = "Stream.get_schema" -> {"source_id", "stream_id"}
      [] api \in {"Source.pause", "Source.unpause", "Stream.list",
                  "ConnectionCheck.get", "ReplicationJob.start",
                  "ReplicationJob.stop", "Source.get", "Source.delete"} -> {"source_id"}
      [] OTHER -> {}

BuilderRequired(api) ==
    CASE api \in {"Source.reset"} -> {"source_id"}
      [] api = "Stream.reset" -> {"source_id", "stream_id"}
      [] api = "Stream.get_load_data" ->
            {"source_id", "stream_name", "time_range_start", "time_range_end"}
      [] api = "Source.update" -> {"source_id", "payload"}
      [] api = "Stream.get_schema" -> {"source_id", "stream_id"}
      [] api \in {"Source.pause", "Source.unpause", "Stream.list",
                  "ConnectionCheck.get", "ReplicationJob.start",
                  "ReplicationJob.stop", "Source.get", "Source.delete"} -> {"source_id"}
      [] OTHER -> {}

\* The builders of api/public.py end in *args, **kwargs; those of
\* api/internal.py do not.
TakesKwargs(api) ==
    api \notin {"Source.reset", "Source.daily_report", "Stream.reset",
                "Stream.get_load_data"}

\* The ids a builder asserts to be non-zero.
BuilderAsserts(api) ==
    CASE api = "Stream.get_schema" -> {"source_id", "stream_id"}
      [] api \in {"Source.update", "Source.pause", "Source.unpause", "Stream.list",
                  "ConnectionCheck.get", "ReplicationJob.start",
                  "ReplicationJob.stop", "Source.get", "Source.delete"} -> {"source_id"}
      [] OTHER -> {}

Descriptor(method, kind) == [err |-> "", method |-> method, kind |-> kind]

\* api_call(*args, **kwargs): the SendRequest the builder returns, or the
\* exception it raises.
send_request(api, kw, source_id, stream_id) ==
    IF (~TakesKwargs(api) /\ ~(kw \subseteq BuilderParams(api)))
          \/ ~(BuilderRequired(api) \subseteq kw)
    THEN [err |-> "TypeError", method |-> "", kind |-> ""]
    ELSE IF ("source_id" \in BuilderAsserts(api) /\ source_id = 0)
              \/ ("stream_id" \in BuilderAsserts(api) /\ stream_id = 0)
    THEN [err |-> "InvalidArgument", method |-> "", kind |-> ""]
    ELSE CASE api = "Source.list" -> Descriptor("get", "sources")
           [] api = "Source.update" -> Descriptor("put", "source")
           [] api = "Source.pause" -> Descriptor("put", "source")
           [] api = "Source.unpause" -> Descriptor("put", "source")
           [] api = "Source.reset" -> Descriptor("delete", "state")
           [] api = "Source.daily_report" -> Descriptor("get", "daily")
           [] api = "Stream.list" -> Descriptor("get", "streams")
           [] api = "Stream.get_schema" -> Descriptor("get", "schema")
           [] api = "Stream.reset" -> Descriptor("delete", "bookmark")
           [] api = "Stream.get_load_data" -> Descriptor("get", "loading-reports")
           [] api = "ConnectionCheck.get" -> Descriptor("get", "last-connection-check")
           [] api = "ReplicationJob.start" -> Descriptor("post", "sync")
           [] api = "Source.get" -> Descriptor("get", "source")
           [] api = "Source.delete" -> Descriptor("delete", "source")
           [] api = "Session.create" -> Descriptor("post", "sessions/ephemeral")
           [] api = "ReplicationJob.stop" ->
                 [err |-> "AttributeError", method |-> "", kind |-> ""]
           [] OTHER -> [err |-> "AttributeError", method |-> "", kind |-> ""]

(***************************************************************************)
(* StitchAPI._execute_request.  kw is the set of keyword names in kwargs;  *)
(* source_id and stream_id are kwargs.get(...), 0 standing for None.       *)
(***************************************************************************)
Kwarg(kw, key, value) == IF key \in kw THEN value ELSE 0

\* Mutant: the blacklist is consulted whatever read_only says.
SkipsBlacklist_never(wb, kw) == ~wb.present

\* Line 115: the condition under which verify_request is not called.
SkipsBlacklist(wb, kw) == ~wb.present \/ "read_only" \in kw

\* Lines 115-117: the blacklist check.
Verified(ctx, api, kw, sid, stid) ==
    IF SkipsBlacklist(ctx.wb, kw) THEN ctx
    ELSE Only({[ctx EXCEPT !.verified = Append(@, api),
                           !.wb.stream_entries = v.stream_entries,
                           !.err = v.err] :
               v \in {verify_request(ctx.wb, sid, stid)}})

\* Lines 123-125: the value returned for response number Len(ctx.reqs);
\* response.json() raises when the body is not JSON.
Respond(ctx, env, return_json) ==
    IF ~Ok(ctx) THEN ctx
    ELSE IF ~return_json THEN Return(ctx, [kind |-> "status", body |-> ctx.code])
    ELSE IF Len(ctx.reqs) = env.failAt /\ ~env.decodes THEN Raise(ctx, "DecodeError")
    ELSE Return(ctx, [kind |-> "json",
                      body |-> ResponseJson(env, ctx.reqs[Len(ctx.reqs)])])

\* Lines 118-125: the builder is called and its descriptor is sent.
Dispatch(ctx, env, api, return_json, kw, sid, stid, from, to) ==
    IF ~Ok(ctx) THEN Raise(ctx, ctx.err)
    ELSE Only({IF d.err # "" THEN Raise(ctx, d.err)
               ELSE Only({Respond(c2, env, return_json) :
                          c2 \in {Http(ctx, env, d.method, d.kind, sid, stid, from, to)}}) :
               d \in {send_request(api, kw, sid, stid)}})

execute_request(ctx, env, api, return_json, kw, source_id, stream_id, from, to) ==
    IF ~Ok(ctx) THEN ctx
    ELSE Only({Dispatch(c1, env, api, return_json, kw,
                        Kwarg(kw, "source_id", source_id),
                        Kwarg(kw, "stream_id", stream_id), from, to) :
               c1 \in {Verified(ctx, api, kw, Kwarg(kw, "source_id", source_id),
                                Kwarg(kw, "stream_id", stream_id))}})

(***************************************************************************)
(* The name resolver.                                                      *)
(***************************************************************************)
\* Mutant: every record passes the filter.
NotDeleted_always(x) == TRUE

\* Line 131: not x['deleted_at'], true of None and of the empty string.
NotDeleted(x) == x.deleted_at \in {None, ""}

\* Lines 130-133 of list_sources, on the context the request ended in.
FilterDeleted(ctx, include_deleted) ==
    IF ~Ok(ctx) THEN ctx
    ELSE IF ~include_deleted
    THEN Return(ctx, [kind |-> "list", body |-> SelectSeq(ctx.val.body, NotDeleted)])
    ELSE Return(ctx, [kind |-> "list", body |-> ctx.val.body])

\* StitchAPI.list_sources
list_sources(ctx, env, include_deleted) ==
    Only({FilterDeleted(c1, include_deleted) :
          c1 \in {execute_request(ctx, env, "Source.list", TRUE, {"read_only"},
                                  0, 0, 0, 0)}})

\* Mutant: the last match is returned.
FirstMatch_last(ctx, sources) ==
    IF ~Ok(ctx) THEN ctx
    ELSE IF sources = <<>> THEN Raise(ctx, "NotFound")
    ELSE Return(ctx, [kind |-> "record", body |-> sources[Len(sources)]])

\* Lines 139-141 (and 165-168): the first match, or the error.
FirstMatch(ctx, sources) ==
    IF ~Ok(ctx) THEN ctx
    ELSE IF sources = <<>> THEN Raise(ctx, "NotFound")
    ELSE Return(ctx, [kind |-> "record", body |-> sources[1]])

\* StitchAPI.get_source_from_name
get_source_from_name(ctx, env, source_name) ==
    IF ~Ok(ctx) THEN ctx
    ELSE IF source_name = "" THEN Raise(ctx, "InvalidArgument")
    ELSE Only({FirstMatch(c1, WithField(c1.val.body, "name", source_name)) :
               c1 \in {list_sources(ctx, env, FALSE)}})

\* The source id and the stream id a facade call resolved (0: none yet).
Resolved(ctx, source_id) == IF Ok(ctx) THEN [ctx EXCEPT !.sid = source_id] ELSE ctx

ResolvedStream(ctx, stream_id) == IF Ok(ctx) THEN [ctx EXCEPT !.stid = stream_id] ELSE ctx

\* The context after source = self.get_source_from_name(source_name), with
\* source['id'] noted in sid.
ResolveSource(ctx, env, source_name) ==
    Only({IF Ok(c1) THEN Resolved(c1, c1.val.body.id) ELSE c1 :
          c1 \in {get_source_from_name(ctx, env, source_name)}})

\* StitchAPI._list_streams
list_streams_(ctx, env, source_id) ==
    execute_request(ctx, env, "Stream.list", TRUE, {"source_id", "read_only"},
                    source_id, 0, 0, 0)

\* Lines 153-155 of list_streams.
FilterSelected(ctx, selected_only) ==
    IF ~Ok(ctx) THEN ctx
    ELSE IF selected_only
    THEN Return(ctx, [kind |-> "list", body |-> WithField(ctx.val.body, "selected", TRUE)])
    ELSE Return(ctx, [kind |-> "list", body |-> ctx.val.body])

\* StitchAPI.list_streams
list_streams(ctx, env, source_name, selected_only) ==
    Only({Only({FilterSelected(c2, selected_only) :
                c2 \in {list_streams_(c1, env, c1.sid)}}) :
          c1 \in {ResolveSource(ctx, env, source_name)}})

\* StitchAPI.get_stream_from_name
get_stream_from_name(ctx, env, source_name, stream_name) ==
    IF ~Ok(ctx) THEN ctx
    ELSE IF source_name = "" \/ stream_name = "" THEN Raise(ctx, "InvalidArgument")
    ELSE Only({Only({FirstMatch(c2, WithField(c2.val.body, "stream_name", stream_name)) :
                     c2 \in {list_streams_(c1, env, c1.val.body.id)}}) :
               c1 \in {get_source_from_name(ctx, env, source_name)}})

\* The context after stream = self.get_stream_from_name(...), with
\* stream['stream_id'] noted in stid.
ResolveStream(ctx, env, source_name, stream_name) ==
    Only({IF Ok(c1) THEN ResolvedStream(c1, c1.val.body.stream_id) ELSE c1 :
          c1 \in {get_stream_from_name(ctx, env, source_name, stream_name)}})

\* StitchAPI.get_stream_schema
get_stream_schema(ctx, env, source_id, stream_id) ==
    Only({execute_request(c0, env, "Stream.get_schema", TRUE,
                          {"source_id", "stream_id", "read_only"},
                          source_id, stream_id, 0, 0) :
          c0 \in {[ctx EXCEPT !.sid = source_id, !.stid = stream_id]}})

\* StitchAPI.get_stream_schema_from_name
get_stream_schema_from_name(ctx, env, source_name, stream_name) ==
    Only({Only({execute_request(c2, env, "Stream.get_schema", TRUE,
                                {"source_id", "stream_id", "read_only"},
                                c2.sid, c2.stid, 0, 0) :
                c2 \in {ResolveStream(c1, env, source_name, stream_name)}}) :
          c1 \in {ResolveSource(ctx, env, source_name)}})

\* StitchAPI._reset_stream, under internal_login_required
reset_stream_(ctx, env, source_id, stream_id) ==
    Only({execute_request(c0, env, "Stream.reset", FALSE,
                          {"source_id", "stream_id", "client_id"},
                          source_id, stream_id, 0, 0) :
          c0 \in {internal_login_required(ctx, env)}})

\* StitchAPI.reset_stream
reset_stream(ctx, env, source_name, stream_name) ==
    Only({Only({reset_stream_(c2, env, c2.sid, c2.stid) :
                c2 \in {ResolveStream(c1, env, source_name, stream_name)}}) :
          c1 \in {ResolveSource(ctx, env, source_name)}})

\* StitchAPI._reset_integration, under internal_login_required
reset_integration_(ctx, env, source_id) ==
    Only({execute_request(c0, env, "Source.reset", FALSE, {"source_id", "client_id"},
                          source_id, 0, 0, 0) :
          c0 \in {internal_login_required(ctx, env)}})

\* StitchAPI.reset_integration
reset_integration(ctx, env, source_name) ==
    Only({reset_integration_(c1, env, c1.sid) :
          c1 \in {ResolveSource(ctx, env, source_name)}})

\* StitchAPI.get_replication_schedule: source['schedule'], here the id of the
\* source whose schedule it is.
get_replication_schedule(ctx, env, source_name) ==
    Only({IF ~Ok(c1) THEN c1 ELSE Return(c1, [kind |-> "schedule", body |-> c1.sid]) :
          c1 \in {ResolveSource(ctx, env, source_name)}})

\* A facade method that resolves the source and sends one request on it.
OnSource(ctx, env, source_name, api, kw, return_json) ==
    Only({execute_request(c1, env, api, return_json, kw, c1.sid, 0, 0, 0) :
          c1 \in {ResolveSource(ctx, env, source_name)}})

\* A method without a return statement returns None.
ReturnsNone(ctx) == IF ~Ok(ctx) THEN ctx ELSE Return(ctx, NoVal)

\* Mutant: the arguments are validated after the source is looked up.
set_replication_schedule_late(ctx, env, source_name, cron_expression, frequency_in_minutes) ==
    Only({IF ~Ok(c1) THEN c1
          ELSE IF cron_expression = frequency_in_minutes THEN Raise(c1, "InvalidArgument")
          ELSE execute_request(c1, env, "Source.update", FALSE,
                               {"source_id", "payload"}, c1.sid, 0, 0, 0) :
          c1 \in {ResolveSource(ctx, env, source_name)}})

\* StitchAPI.set_replication_schedule: cron_expression and
\* frequency_in_minutes by their truth values.
set_replication_schedule(ctx, env, source_name, cron_expression, frequency_in_minutes) ==
    IF ~((cron_expression \/ frequency_in_minutes)
            /\ ~(cron_expression /\ frequency_in_minutes))
    THEN Raise(ctx, "InvalidArgument")
    ELSE OnSource(ctx, env, source_name, "Source.update", {"source_id", "payload"}, FALSE)

\* StitchAPI.pause_source
pause_source(ctx, env, source_name) ==
    OnSource(ctx, env, source_name, "Source.pause", {"source_id"}, FALSE)

\* StitchAPI.unpause_source
unpause_source(ctx, env, source_name) ==
    OnSource(ctx, env, source_name, "Source.unpause", {"source_id"}, FALSE)

\* StitchAPI.source_connection_check: the response is dropped.
source_connection_check(ctx, env, source_name) ==
    Only({ReturnsNone(c1) :
          c1 \in {OnSource(ctx, env, source_name, "ConnectionCheck.get",
                           {"source_id", "read_only"}, TRUE)}})

\* StitchAPI.start_repliction
start_repliction(ctx, env, source_name) ==
    Only({ReturnsNone(c1) :
          c1 \in {OnSource(ctx, env, source_name, "ReplicationJob.start",
                           {"source_id"}, FALSE)}})

\* StitchAPI.stop_replication
stop_replication(ctx, env, source_name) ==
    Only({ReturnsNone(c1) :
          c1 \in {OnSource(ctx, env, source_name, "ReplicationJob.stop",
                           {"source_id"}, FALSE)}})

(***************************************************************************)
(* Reports.  Dates are clock ticks; a timedelta's days is the whole number *)
(* of DayLen ticks in it.                                                  *)
(***************************************************************************)
MAX_REPORT_DAYS == 1

Days(delta) == delta \div DayLen

\* Mutant: the date is returned as it came.
adjust_date_unclipped(raw_datetime, now) == raw_datetime

\* StitchAPI.adjust_date, datetime.now() being now.
adjust_date(raw_datetime, now) ==
    LET earliest_date == now - MAX_REPORT_DAYS * DayLen
    IN  IF raw_datetime < earliest_date THEN earliest_date ELSE raw_datetime

GetLoadsKw == {"source_id", "stream_name", "start_iso", "end_iso", "limit", "offset",
               "client_id", "read_only"}

\* Lines 319-321 (and 341-343): the source id, looked up when none is given.
SourceIdOrLookup(ctx, env, source_id, source_name) ==
    IF ~Ok(ctx) THEN ctx
    ELSE IF source_id = 0 THEN ResolveSource(ctx, env, source_name)
    ELSE Resolved(ctx, source_id)

\* The call of get_loads is noted in loads with the error it ended with.
NoteLoad(ctx, stream_name, time_range_start, time_range_end) ==
    [ctx EXCEPT !.loads = Append(@, [stream_name |-> stream_name,
                                     from |-> time_range_start,
                                     to |-> time_range_end,
                                     err |-> ctx.err])]

\* StitchAPI.get_loads, under read_only and internal_login_required.
get_loads(ctx, env, source_name, stream_name, time_range_start, time_range_end, source_id) ==
    IF ~Ok(ctx) THEN ctx
    ELSE
    Only({Only({Only({NoteLoad(c2, stream_name, time_range_start, time_range_end) :
                      c2 \in {execute_request(c1, env, "Stream.get_load_data", TRUE,
                                              GetLoadsKw, c1.sid, 0,
                                              time_range_start, time_range_end)}}) :
                c1 \in {SourceIdOrLookup(c0, env, source_id, source_name)}}) :
          c0 \in {internal_login_required(ctx, env)}})

\* The date_list of get_multi_day_reports (lines 267-272).
DateList(start_datetime, end_datetime) ==
    LET days == Days(end_datetime - start_datetime)
        date_list == [x \in 1..(days + 1) |-> start_datetime + (x - 1) * DayLen]
    IN  IF end_datetime > date_list[Len(date_list)]
        THEN Append(date_list, end_datetime)
        ELSE [date_list EXCEPT ![Len(date_list)] = end_datetime]

\* Mutant: a failed sub-range is skipped and the rest is gathered.
ExtendOrSkip(ctx, reports) ==
    IF ~Ok(ctx)
    THEN [ctx EXCEPT !.err = "", !.code = 0, !.val = [kind |-> "list", body |-> reports]]
    ELSE Return(ctx, [kind |-> "list", body |-> reports \o ctx.val.body.batches])

\* reports.extend(report['batches']): reports is kept in val.
Extend(ctx, reports) ==
    IF ~Ok(ctx) THEN ctx
    ELSE Return(ctx, [kind |-> "list", body |-> reports \o ctx.val.body.batches])

\* The body of the loop of get_multi_day_reports (lines 275-278).
MultiDayStep(ctx, env, source_id, stream_name, start, end) ==
    Only({Extend(c1, ctx.val.body) :
          c1 \in {get_loads(ctx, env, "", stream_name, start, end, source_id)}})

\* The loop of get_multi_day_reports over zip(date_list, date_list[1:]),
\* from pair i on.
RECURSIVE MultiDayLoop(_, _, _, _, _, _)
MultiDayLoop(ctx, env, source_id, stream_name, date_list, i) ==
    IF ~Ok(ctx) \/ i >= Len(date_list) THEN ctx
    ELSE Only({MultiDayLoop(c1, env, source_id, stream_name, date_list, i + 1) :
               c1 \in {MultiDayStep(ctx, env, source_id, stream_name,
                                    date_list[i], date_list[i + 1])}})

\* StitchAPI.get_multi_day_reports
get_multi_day_reports(ctx, env, source_id, stream_name, start_datetime, end_datetime) ==
    Only({MultiDayLoop(c0, env, source_id, stream_name,
                       DateList(start_datetime, end_datetime), 1) :
          c0 \in {Return(ctx, [kind |-> "list", body |-> <<>>])}})

\* Lines 293-295: one request for the whole range.
SingleReport(ctx, env, source_id, stream_name, start, end) ==
    Only({Extend(c1, <<>>) :
          c1 \in {get_loads(ctx, env, "", stream_name, start, end, source_id)}})

\* Lines 286-296 of get_stream_load_reports, on the adjusted dates.
ChunkedReports(ctx, env, source_id, stream_name, start, end) ==
    IF Days(end - start) > 0
    THEN get_multi_day_reports(ctx, env, source_id, stream_name, start, end)
    ELSE SingleReport(ctx, env, source_id, stream_name, start, end)

\* StitchAPI.get_stream_load_reports: datetime.now() is env.now at the first
\* adjust_date and env.now2 at the second.
get_stream_load_reports(ctx, env, source_id, stream_name, start_datetime, end_datetime) ==
    IF ~Ok(ctx) THEN ctx
    ELSE ChunkedReports(ctx, env, source_id, stream_name,
                        adjust_date(start_datetime, env.now),
                        adjust_date(end_datetime, env.now2))

\* Lines 306-310: the reports of one stream are added to reports.
SourceLoadStep(ctx, env, source_id, stream_name, start_datetime, end_datetime) ==
    Only({IF ~Ok(c1) THEN c1
          ELSE Return(c1, [kind |-> "list", body |-> ctx.val.body \o c1.val.body]) :
          c1 \in {get_stream_load_reports(ctx, env, source_id, stream_name,
                                          start_datetime, end_datetime)}})

\* The loop of get_source_load_reports over the streams, from stream i on.
RECURSIVE SourceLoadLoop(_, _, _, _, _, _, _, _)
SourceLoadLoop(ctx, env, source_id, streams, start_datetime, end_datetime, selected_only, i) ==
    IF ~Ok(ctx) \/ i > Len(streams) THEN ctx
    ELSE IF selected_only /\ ~streams[i].selected
    THEN SourceLoadLoop(ctx, env, source_id, streams, start_datetime, end_datetime,
                        selected_only, i + 1)
    ELSE Only({SourceLoadLoop(c1, env, source_id, streams, start_datetime,
                              end_datetime, selected_only, i + 1) :
               c1 \in {SourceLoadStep(ctx, env, source_id, streams[i].stream_name,
                                      start_datetime, end_datetime)}})

\* StitchAPI.get_source_load_reports
get_source_load_reports(ctx, env, source_id, start_datetime, end_datetime, selected_only) ==
    Only({IF ~Ok(c1) THEN c1
          ELSE SourceLoadLoop(Return(c1, [kind |-> "list", body |-> <<>>]), env,
                              source_id, c1.val.body, start_datetime, end_datetime,
                              selected_only, 1) :
          c1 \in {list_streams_([ctx EXCEPT !.sid = source_id], env, source_id)}})

\* StitchAPI.get_extractions, under read_only and internal_login_required:
\* api.Source has no get_extraction_data.
get_extractions(ctx, env, source_id, source_name) ==
    Only({Only({execute_request(c1, env, "Source.get_extraction_data", TRUE,
                                {"source_id", "start_iso", "end_iso", "client_id",
                                 "read_only"}, c1.sid, 0, 0, 0) :
                c1 \in {SourceIdOrLookup(c0, env, source_id, source_name)}}) :
          c0 \in {internal_login_required(ctx, env)}})

\* Line 376 of get_source_daily_report.
FilterStats(ctx, id) ==
    IF ~Ok(ctx) THEN ctx
    ELSE Return(ctx, [kind |-> "list",
                      body |-> WithField(ctx.val.body.stats, "connection_id", id)])

\* StitchAPI.get_source_daily_report, under internal_login_required
get_source_daily_report(ctx, env, source_name) ==
    Only({Only({Only({FilterStats(c2, c1.sid) :
                      c2 \in {execute_request(c1, env, "Source.daily_report", TRUE,
                                              {"client_id"}, 0, 0, 0, 0)}}) :
                c1 \in {ResolveSource(c0, env, source_name)}}) :
          c0 \in {internal_login_required(ctx, env)}})

(***************************************************************************)
(* Construction.  A configuration string is a sequence of tokens.          *)
(***************************************************************************)
Configs == {<<>>, <<"a">>, <<"b">>, <<"a", ",", "b">>, <<"a", ".", "s">>,
            <<"b", ",", "a", ".", "s">>}

\* str.split(sep)
RECURSIVE Split(_, _)
Split(str, sep) ==
    IF \A i \in 1..Len(str) : str[i] # sep THEN <<str>>
    ELSE LET i == CHOOSE j \in 1..Len(str) :
                      str[j] = sep /\ \A k \in 1..(j - 1) : str[k] # sep
         IN  <<SubSeq(str, 1, i - 1)>> \o Split(SubSeq(str, i + 1, Len(str)), sep)

\* The string a run of tokens spells: a name token, or the empty string.
Str(tokens) == IF tokens = <<>> THEN "" ELSE tokens[1]

\* entry.split(".") + [None]
EntryParts(entry) ==
    [k \in 1..Len(Split(entry, ".")) |-> Str(Split(entry, ".")[k])] \o <<None>>

\* Lines 94-100: one entry is unpacked, resolved and appended.  acc holds
\* source_entries and stream_entries.
ParseEntry(ctx, env, parts, acc) ==
    IF Len(parts) # 2 THEN Raise(ctx, "UnpackError")
    ELSE Only({IF ~Ok(c1) THEN c1
               ELSE IF parts[2] # None /\ parts[2] # ""
               THEN Raise(c1, "TypeError")
               ELSE Return(c1, [kind |-> "entries",
                                body |-> [acc EXCEPT !.source_entries =
                                                        Append(@, c1.val.body.id)]]) :
               c1 \in {get_source_from_name(ctx, env, parts[1])}})

\* The loop of _parse_blacklist_config over the entries, from entry i on;
\* the entries gathered so far are in val.
RECURSIVE ParseEntries(_, _, _, _)
ParseEntries(ctx, env, entries, i) ==
    IF ~Ok(ctx) \/ i > Len(entries) THEN ctx
    ELSE Only({ParseEntries(c1, env, entries, i + 1) :
               c1 \in {ParseEntry(ctx, env, EntryParts(entries[i]), ctx.val.body)}})

\* Lines 101-103.
BuildBlacklist(ctx) ==
    IF ~Ok(ctx) THEN ctx
    ELSE IF ctx.val.body.stream_entries # <<>> \/ ctx.val.body.source_entries # <<>>
    THEN [ctx EXCEPT !.wb = WriteBlacklist(ctx.val.body.source_entries,
                                           ctx.val.body.stream_entries),
                     !.val = NoVal]
    ELSE Return(ctx, NoVal)

\* StitchAPI._parse_blacklist_config
parse_blacklist_config(ctx, env, config_string) ==
    IF config_string = <<>> THEN [ctx EXCEPT !.wb = NoBlacklist]
    ELSE Only({BuildBlacklist(c1) :
               c1 \in {ParseEntries(Return(ctx, [kind |-> "entries",
                                                 body |-> [source_entries |-> <<>>,
                                                           stream_entries |-> <<>>]]),
                                    env, Split(config_string, ","), 1)}})

(***************************************************************************)
(* The state machine.  last is what the caller sees of the call that just  *)
(* returned or raised; Discard is the caller going on to its next call.    *)
(***************************************************************************)
Idle == [op |-> "idle", args |-> <<>>, sources |-> <<>>, sid |-> 0, stid |-> 0,
         err |-> "", code |-> 0, ret |-> NoVal, reqs |-> <<>>, verified |-> <<>>,
         loads |-> <<>>]

Seen(op, args, sources, c) ==
    [op |-> op, args |-> args, sources |-> sources, sid |-> c.sid, stid |-> c.stid,
     err |-> c.err, code |-> c.code, ret |-> c.val, reqs |-> c.reqs,
     verified |-> c.verified, loads |-> c.loads]

\* The client is constructed and its caller is about to call it.
Ready == client = "ready" /\ last.op = "idle"

\* A facade call that ends in the context in outcome: the client keeps the
\* blacklist, the flag and the session count the call left.
Outcome(op, args, sources, outcome) ==
    \E c \in outcome :
        /\ c.logins <= MaxLogins
        /\ write_blacklist' = c.wb
        /\ logged_in_internal' = c.logged_in
        /\ logins' = c.logins
        /\ last' = Seen(op, args, sources, c)
        /\ UNCHANGED client

Init ==
    /\ client = "new"
    /\ write_blacklist = NoBlacklist
    /\ logged_in_internal = FALSE
    /\ logins = 0
    /\ last = Idle

\* StitchAPI.__init__
Construct ==
    /\ client = "new"
    /\ \E config \in Configs, srcs \in SourceListings, inj \in Injections(2) :
        \E c \in {parse_blacklist_config(Ctx0, Env(srcs, AnyStreams, inj, Now), config)} :
              /\ client' = IF Ok(c) THEN "ready" ELSE "failed"
              /\ write_blacklist' = IF Ok(c) THEN c.wb ELSE NoBlacklist
              /\ logged_in_internal' = FALSE
              /\ logins' = 0
              /\ last' = Seen("__init__", <<config>>, srcs, c)

\* The caller has taken the result (cli.py prints it) and goes on.
Discard ==
    /\ client \in {"ready", "none"}
    /\ last.op # "idle"
    /\ last' = Idle
    /\ UNCHANGED <<client, write_blacklist, logged_in_internal, logins>>

ListSources ==
    /\ Ready
    /\ \E include_deleted \in BOOLEAN, srcs \in SourceListings, inj \in Injections(1) :
        Outcome("list_sources", <<include_deleted>>, srcs,
             {list_sources(Ctx0, Env(srcs, AnyStreams, inj, Now), include_deleted)})

GetSourceFromName ==
    /\ Ready
    /\ \E name \in ArgNames, srcs \in SourceListings, inj \in Injections(1) :
        Outcome("get_source_from_name", <<name>>, srcs,
             {get_source_from_name(Ctx0, Env(srcs, AnyStreams, inj, Now), name)})

ListStreams ==
    /\ Ready
    /\ \E name \in ArgNames, selected_only \in BOOLEAN, srcs \in ResolverListings,
       strs \in StreamListings, inj \in Injections(2) :
        Outcome("list_streams", <<name, selected_only>>, <<>>,
             {list_streams(Ctx0, Env(srcs, strs, inj, Now), name, selected_only)})

GetStreamFromName ==
    /\ Ready
    /\ \E name \in ArgNames, stream \in ArgStreamNames, srcs \in ResolverListings,
       inj \in Injections(2) :
        Outcome("get_stream_from_name", <<name, stream>>, <<>>,
             {get_stream_from_name(Ctx0, Env(srcs, AnyStreams, inj, Now), name, stream)})

GetStreamSchema ==
    /\ Ready
    /\ \E source_id \in 0..MaxSources, stream_id \in 0..MaxStreams, inj \in Injections(1) :
        Outcome("get_stream_schema", <<source_id, stream_id>>, <<>>,
             {get_stream_schema(Ctx0, Env(AnySources, AnyStreams, inj, Now), source_id, stream_id)})

GetStreamSchemaFromName ==
    /\ Ready
    /\ \E name \in ArgNames, stream \in ArgStreamNames, srcs \in ResolverListings,
       inj \in Injections(4) :
        Outcome("get_stream_schema_from_name", <<name, stream>>, <<>>,
             {get_stream_schema_from_name(Ctx0, Env(srcs, AnyStreams, inj, Now), name, stream)})

ResetStream ==
    /\ Ready
    /\ \E name \in ArgNames, stream \in ArgStreamNames, srcs \in ResolverListings,
       inj \in Injections(5) :
        Outcome("reset_stream", <<name, stream>>, <<>>,
             {reset_stream(Ctx0, Env(srcs, AnyStreams, inj, Now), name, stream)})

ResetIntegration ==
    /\ Ready
    /\ \E name \in ArgNames, srcs \in ResolverListings, inj \in Injections(3) :
        Outcome("reset_integration", <<name>>, <<>>,
             {reset_integration(Ctx0, Env(srcs, AnyStreams, inj, Now), name)})

GetReplicationSchedule ==
    /\ Ready
    /\ \E name \in ArgNames, srcs \in ResolverListings, inj \in Injections(1) :
        Outcome("get_replication_schedule", <<name>>, <<>>,
             {get_replication_schedule(Ctx0, Env(srcs, AnyStreams, inj, Now), name)})

SetReplicationSchedule ==
    /\ Ready
    /\ \E name \in ArgNames, cron \in BOOLEAN, freq \in BOOLEAN, srcs \in ResolverListings,
       inj \in Injections(2) :
        Outcome("set_replication_schedule", <<name, cron, freq>>, <<>>,
             {set_replication_schedule(Ctx0, Env(srcs, AnyStreams, inj, Now), name, cron, freq)})

PauseSource ==
    /\ Ready
    /\ \E name \in ArgNames, srcs \in ResolverListings, inj \in Injections(2) :
        Outcome("pause_source", <<name>>, <<>>,
             {pause_source(Ctx0, Env(srcs, AnyStreams, inj, Now), name)})

UnpauseSource ==
    /\ Ready
    /\ \E name \in ArgNames, srcs \in ResolverListings, inj \in Injections(2) :
        Outcome("unpause_source", <<name>>, <<>>,
             {unpause_source(Ctx0, Env(srcs, AnyStreams, inj, Now), name)})

SourceConnectionCheck ==
    /\ Ready
    /\ \E name \in ArgNames, srcs \in ResolverListings, inj \in Injections(2) :
        Outcome("source_connection_check", <<name>>, <<>>,
             {source_connection_check(Ctx0, Env(srcs, AnyStreams, inj, Now), name)})

StartRepliction ==
    /\ Ready
    /\ \E name \in ArgNames, srcs \in ResolverListings, inj \in Injections(2) :
        Outcome("start_repliction", <<name>>, <<>>,
             {start_repliction(Ctx0, Env(srcs, AnyStreams, inj, Now), name)})

StopReplication ==
    /\ Ready
    /\ \E name \in ArgNames, srcs \in ResolverListings, inj \in Injections(2) :
        Outcome("stop_replication", <<name>>, <<>>,
             {stop_replication(Ctx0, Env(srcs, AnyStreams, inj, Now), name)})

GetLoads ==
    /\ Ready
    /\ \E name \in ArgNames, source_id \in 0..1, srcs \in ResolverListings,
       inj \in Injections(2) :
        Outcome("get_loads", <<name, "s", Now, Now, source_id>>, <<>>,
             {get_loads(Ctx0, Env(srcs, AnyStreams, inj, Now), name, "s", Now, Now, source_id)})

GetStreamLoadReports ==
    /\ Ready
    /\ \E source_id \in 0..1, start \in 0..MaxTime, end \in 0..MaxTime,
       now2 \in {Now, Now + 1}, inj \in Injections(1) :
        Outcome("get_stream_load_reports", <<source_id, "s", start, end, now2>>, <<>>,
             {get_stream_load_reports(Ctx0, Env(AnySources, AnyStreams, inj, now2), source_id, "s", start, end)})

GetSourceLoadReports ==
    /\ Ready
    /\ \E source_id \in 0..1, start \in {0, Now}, end \in {Now, MaxTime},
       selected_only \in BOOLEAN, strs \in StreamListings, inj \in Injections(2) :
        Outcome("get_source_load_reports", <<source_id, start, end, selected_only, strs>>,
             <<>>,
             {get_source_load_reports(Ctx0, Env(AnySources, strs, inj, Now), source_id, start, end, selected_only)})

GetExtractions ==
    /\ Ready
    /\ \E name \in ArgNames, source_id \in 0..1, srcs \in ResolverListings,
       inj \in Injections(2) :
        Outcome("get_extractions", <<source_id, name>>, <<>>,
             {get_extractions(Ctx0, Env(srcs, AnyStreams, inj, Now), source_id, name)})

GetSourceDailyReport ==
    /\ Ready
    /\ \E name \in ArgNames, srcs \in ResolverListings, inj \in Injections(3) :
        Outcome("get_source_daily_report", <<name>>, <<>>,
             {get_source_daily_report(Ctx0, Env(srcs, AnyStreams, inj, Now), name)})

\* StitchAPI.adjust_date called on its own (a classmethod), the clock
\* reading now.
AdjustDate ==
    /\ Ready
    /\ \E raw_datetime \in 0..MaxTime, now \in {Now, Now + 1} :
        \E d \in {adjust_date(raw_datetime, now)} :
            /\ last' = [Idle EXCEPT !.op = "adjust_date",
                                    !.args = <<raw_datetime, now>>,
                                    !.ret = [kind |-> "date", body |-> d]]
            /\ UNCHANGED <<client, write_blacklist, logged_in_internal, logins>>

Next ==
    \/ Construct
    \/ Discard
    \/ ListSources
    \/ GetSourceFromName
    \/ ListStreams
    \/ GetStreamFromName
    \/ GetStreamSchema
    \/ GetStreamSchemaFromName
    \/ ResetStream
    \/ ResetIntegration
    \/ GetReplicationSchedule
    \/ SetReplicationSchedule
    \/ PauseSource
    \/ UnpauseSource
    \/ SourceConnectionCheck
    \/ StartRepliction
    \/ StopReplication
    \/ GetLoads
    \/ GetStreamLoadReports
    \/ GetSourceLoadReports
    \/ GetExtractions
    \/ GetSourceDailyReport
    \/ AdjustDate

Spec == Init /\ [][Next]_vars

(***************************************************************************)
(* WriteBlacklist on its own: an object built directly from any            *)
(* source_entries and stream_entries, and calls of verify_request on it.   *)
(***************************************************************************)
SourceIds == 1..MaxSources
StreamIds == 1..MaxStreams

\* Lists of ids of length at most one.
ShortLists(ids) == {<<>>} \cup {<<i>> : i \in ids}

StreamEntries ==
    UNION {[keys -> ShortLists(StreamIds)] : keys \in SUBSET SourceIds}

InitWB ==
    /\ client = "none"
    /\ write_blacklist \in {WriteBlacklist(se, st) :
                               se \in ShortLists(SourceIds), st \in StreamEntries}
    /\ logged_in_internal = FALSE
    /\ logins = 0
    /\ last = Idle

\* write_blacklist.verify_request(source_id=..., stream_id=...); 0 is None.
VerifyRequest ==
    /\ client = "none"
    /\ last.op = "idle"
    /\ \E source_id \in 0..MaxSources, stream_id \in 0..MaxStreams :
        \E v \in {verify_request(write_blacklist, source_id, stream_id)} :
            /\ write_blacklist' = [write_blacklist EXCEPT
                                      !.stream_entries = v.stream_entries]
            /\ last' = [Idle EXCEPT !.op = "verify_request",
                                    !.args = <<source_id, stream_id>>,
                                    !.sid = source_id, !.stid = stream_id,
                                    !.err = v.err]
            /\ UNCHANGED <<client, logged_in_internal, logins>>

NextWB ==
    \/ VerifyRequest
    \/ Discard

SpecWB == InitWB /\ [][NextWB]_vars

(***************************************************************************)
(* The request builders on their own: each builder called with the         *)
(* keywords the facade passes it, or with the parameters it requires.      *)
(***************************************************************************)
Builders == {"Source.list", "Source.get", "Source.update", "Source.pause",
             "Source.unpause", "Source.delete", "Stream.list", "Stream.get_schema",
             "Source.reset", "Stream.reset", "Stream.get_load_data",
             "Source.get_extraction_data", "ReplicationJob.start",
             "ReplicationJob.stop", "Source.daily_report", "Session.create",
             "ConnectionCheck.get"}

\* The keywords _execute_request hands the builder in the facade method that
\* uses it (read_only comes from the decorator); for a builder no facade
\* method uses, the parameters it requires.
FacadeKw(api) ==
    CASE api = "Source.list" -> {"read_only"}
      [] api = "Source.update" -> {"source_id", "payload"}
      [] api \in {"Stream.list", "ConnectionCheck.get"} -> {"source_id", "read_only"}
      [] api = "Stream.get_schema" -> {"source_id", "stream_id", "read_only"}
      [] api = "Source.reset" -> {"source_id", "client_id"}
      [] api = "Stream.reset" -> {"source_id", "stream_id", "client_id"}
      [] api = "Stream.get_load_data" -> GetLoadsKw
      [] api = "Source.get_extraction_data" ->
            {"source_id", "start_iso", "end_iso", "client_id", "read_only"}
      [] api = "Source.daily_report" -> {"client_id"}
      [] OTHER -> BuilderRequired(api)

InitB ==
    /\ client = "builders"
    /\ write_blacklist = NoBlacklist
    /\ logged_in_internal = FALSE
    /\ logins = 0
    /\ last = Idle

\* api_call(**kwargs) as line 118 makes it; an id of 0 is None.
BuildRequest ==
    /\ client = "builders"
    /\ last.op = "idle"
    /\ \E api \in Builders, source_id \in 0..MaxSources, stream_id \in 0..MaxStreams :
       \E kw \in {FacadeKw(api), BuilderRequired(api)} :
       \E d \in {send_request(api, kw, source_id, stream_id)} :
            /\ last' = [Idle EXCEPT !.op = "builder",
                                    !.args = <<api, kw>>,
                                    !.sid = source_id, !.stid = stream_id,
                                    !.err = d.err,
                                    !.ret = IF d.err = ""
                                            THEN [kind |-> "descriptor",
                                                  body |-> <<d.method, d.kind>>]
                                            ELSE NoVal]
            /\ UNCHANGED <<client, write_blacklist, logged_in_internal, logins>>

NextB == BuildRequest

SpecB == InitB /\ [][NextB]_vars

(***************************************************************************)
(* The payload filter of api/public.py and the pause and unpause builders, *)
(* on their own.  A mapping is a function from its keys to its values;     *)
(* None is Python's None and "null" the string the unpause builder sends.  *)
(***************************************************************************)
PayloadKeys == {"paused_at", "name", "schedule", "cls"}
PayloadValues == {None, "null", "x", "y"}

Mappings == UNION {[K -> PayloadValues] : K \in SUBSET PayloadKeys}

\* api/public.py, _encode_values
encode_values_(v) == IF v = "null" THEN None ELSE v

\* Mutant: the value is kept as it is.
create_filtered_payload_raw(arg_dict) == [k \in {k \in DOMAIN arg_dict : arg_dict[k] # None /\ k # "cls"} |-> arg_dict[k]]

\* api/public.py, create_filtered_payload
create_filtered_payload(arg_dict) == [k \in {k \in DOMAIN arg_dict : arg_dict[k] # None /\ k # "cls"} |-> encode_values_(arg_dict[k])]

\* datetime.isoformat(): a string, never None and never "null".
isoformat(now) == ToString(now)

\* Source.update: the descriptor with the filtered payload.
Source_update(source_id, payload) ==
    IF source_id = 0 THEN [err |-> "InvalidArgument", method |-> "", payload |-> <<>>]
    ELSE [err |-> "", method |-> "put", payload |-> create_filtered_payload(payload)]

\* Source.pause
Source_pause(source_id, now) ==
    IF source_id = 0 THEN [err |-> "InvalidArgument", method |-> "", payload |-> <<>>]
    ELSE Source_update(source_id, [k \in {"paused_at"} |-> isoformat(now)])

\* Source.unpause
Source_unpause(source_id) ==
    IF source_id = 0 THEN [err |-> "InvalidArgument", method |-> "", payload |-> <<>>]
    ELSE Source_update(source_id, [k \in {"paused_at"} |-> "null"])

InitP ==
    /\ client = "payloads"
    /\ write_blacklist = NoBlacklist
    /\ logged_in_internal = FALSE
    /\ logins = 0
    /\ last = Idle

\* The result of one builder call, as the caller sees it.
Built(op, args, d) == [Idle EXCEPT !.op = op, !.args = args, !.err = d.err, !.ret = [kind |-> "payload", body |-> d.payload]]

FilterPayload ==
    /\ client = "payloads"
    /\ last.op = "idle"
    /\ \E arg_dict \in Mappings :
        \E p \in {create_filtered_payload(arg_dict)} :
            last' = [Idle EXCEPT !.op = "create_filtered_payload", !.args = <<arg_dict>>,
                                 !.ret = [kind |-> "payload", body |-> p]]
    /\ UNCHANGED <<client, write_blacklist, logged_in_internal, logins>>

UpdatePayload ==
    /\ client = "payloads"
    /\ last.op = "idle"
    /\ \E source_id \in 0..MaxSources, payload \in Mappings :
        \E d \in {Source_update(source_id, payload)} :
            last' = Built("Source.update", <<source_id, payload>>, d)
    /\ UNCHANGED <<client, write_blacklist, logged_in_internal, logins>>

PausePayload ==
    /\ client = "payloads"
    /\ last.op = "idle"
    /\ \E source_id \in 0..MaxSources, now \in {Now, Now + 1} :
        \E d \in {Source_pause(source_id, now)} :
            last' = Built("Source.pause", <<source_id, now>>, d)
    /\ UNCHANGED <<client, write_blacklist, logged_in_internal, logins>>

UnpausePayload ==
    /\ client = "payloads"
    /\ last.op = "idle"
    /\ \E source_id \in 0..MaxSources :
        \E d \in {Source_unpause(source_id)} :
            last' = Built("Source.unpause", <<source_id>>, d)
    /\ UNCHANGED <<client, write_blacklist, logged_in_internal, logins>>

NextP ==
    \/ FilterPayload
    \/ UpdatePayload
    \/ PausePayload
    \/ UnpausePayload

SpecP == InitP /\ [][NextP]_vars

(***************************************************************************)
(* Properties.                                                             *)
(***************************************************************************)
\* The requests of the observed call that were sent with a given method set.
Sent(methods, kinds) ==
    {i \in DOMAIN last.reqs :
        last.reqs[i].method \in methods /\ last.reqs[i].kind \in kinds}

\* The status codes of success.
Is2xx(status) == status >= 200 /\ status <= 299

\* C1 (as stated): within one client lifetime the login request
\* (POST /session) is answered at most once: after a login has succeeded no
\* later internal-API call opens a session again.
C1_LoginAtMostOnce == logins <= 1

\* C1 (as stated, the flag): after an internal-API call whose login request
\* was answered without an error the client is marked logged-in.
C1_MarkedLoggedIn ==
    (\E i \in Sent({"post"}, {"session"}) : Is2xx(last.reqs[i].status))
        => logged_in_internal

MutatingOps == {"pause_source", "unpause_source", "set_replication_schedule",
                "reset_integration", "reset_stream", "start_repliction",
                "stop_replication"}

\* The observed call is a mutating facade call that resolved its names (the
\* source, and for reset_stream the stream) and the source is blacklisted.
BlacklistedWrite ==
    /\ last.op \in MutatingOps
    /\ write_blacklist.present
    /\ last.sid # 0
    /\ last.op = "reset_stream" => last.stid # 0
    /\ InSeq(last.sid, write_blacklist.source_entries)

\* C2 (as stated): a mutating facade call on a blacklisted source fails with
\* Blacklisted and no PUT, POST or DELETE on the source is dispatched.
C2_BlacklistedWriteRejected ==
    BlacklistedWrite =>
        /\ last.err = "Blacklisted"
        /\ Sent({"put", "post", "delete"}, {"source", "state", "bookmark", "sync"}) = {}

\* A stream id is in the list some source id of stream_entries maps to.
StreamBlacklisted(stream_id) ==
    \E k \in DOMAIN write_blacklist.stream_entries :
        InSeq(stream_id, write_blacklist.stream_entries[k])

\* C3 (as stated): verify_request fails with Blacklisted whenever stream_id
\* is in a blacklisted stream list, whichever source id the list is under.
C3_StreamRejectedUnderAnySource ==
    (last.op = "verify_request" /\ StreamBlacklisted(last.stid))
        => last.err = "Blacklisted"

ReadOnlyOps == {"list_sources", "get_source_from_name", "list_streams",
                "get_stream_from_name", "get_stream_schema",
                "get_replication_schedule", "get_loads", "source_connection_check"}

\* The builders of the listings the name lookups fetch.
LookupApis == {"Source.list", "Stream.list"}

\* C4: a read-only facade operation never invokes verify_request and never
\* fails with Blacklisted, and inside any operation the name lookups are
\* never verified.
C4_ReadOnlySkipsBlacklist ==
    /\ last.op \in ReadOnlyOps =>
          last.verified = <<>> /\ last.err # "Blacklisted"
    /\ \A i \in DOMAIN last.verified : last.verified[i] \notin LookupApis

\* C4: a read-only operation on a blacklisted source went through: the
\* streams of a blacklisted source were listed.
C4_ReadOnlyOnBlacklistedSource ==
    /\ last.op = "list_streams"
    /\ write_blacklist.present
    /\ InSeq(last.sid, write_blacklist.source_entries)
    /\ last.err = ""
    /\ Sent({"get"}, {"streams"}) # {}

\* The entries of a configuration: its runs of tokens between commas.
ConfigEntries(config) == Split(config, ",")

\* The non-deleted records of the listing with a given name.
Named(listing, name) ==
    {i \in DOMAIN listing : listing[i].name = name /\ listing[i].deleted_at = None}

\* Every entry is sourceName or sourceName.streamName and its names are in
\* the listings.
EntriesResolve(config, listing) ==
    \A k \in DOMAIN ConfigEntries(config) :
        LET e == ConfigEntries(config)[k]
        IN  /\ Len(e) \in {1, 3}
            /\ Named(listing, e[1]) # {}
            /\ Len(e) = 3 => e[2] = "." /\ e[3] \in {"s", "t"}

\* The id of the first record with the name.
IdOf(listing, name) ==
    listing[CHOOSE i \in Named(listing, name) :
                \A j \in Named(listing, name) : i <= j].id

\* C5 (as stated): constructing a client from a configuration whose names
\* all resolve succeeds, with source_entries exactly the ids of the sources
\* named without a stream and stream_entries keyed by exactly the ids of the
\* sources named with a stream.
C5_ConstructionFromResolvableConfig ==
    (/\ last.op = "__init__"
     /\ last.args[1] # <<>>
     /\ EntriesResolve(last.args[1], last.sources)
     /\ \A i \in DOMAIN last.reqs : Is2xx(last.reqs[i].status))
    => /\ client = "ready"
       /\ last.err = ""
       /\ LET entries == ConfigEntries(last.args[1])
          IN  /\ {write_blacklist.source_entries[i] :
                     i \in DOMAIN write_blacklist.source_entries}
                   = {IdOf(last.sources, entries[k][1]) :
                         k \in {j \in DOMAIN entries : Len(entries[j]) = 1}}
              /\ DOMAIN write_blacklist.stream_entries
                   = {IdOf(last.sources, entries[k][1]) :
                         k \in {j \in DOMAIN entries : Len(entries[j]) = 3}}

C6_ClientBlacklistNeverChanges ==
    [][client = "ready" => write_blacklist' = write_blacklist]_vars

\* The listing an observed get_source_from_name call was answered with.
GotListing ==
    /\ Len(last.reqs) = 1
    /\ last.reqs[1].kind = "sources"
    /\ last.reqs[1].method = "get"

\* The listing came back: the request did not fail and its body was JSON.
ListingDecoded == last.err \notin {"RemoteError", "DecodeError"}

\* The outcome C7 describes for a name: the first non-deleted record with
\* that name in listing order, or NotFound.
FirstOrNotFound(name) ==
    IF Named(last.sources, name) # {}
    THEN /\ last.err = ""
         /\ last.ret.kind = "record"
         /\ last.ret.body.id = IdOf(last.sources, name)
         /\ last.ret.body.name = name
         /\ last.ret.body.deleted_at = None
    ELSE /\ last.err = "NotFound"
         /\ last.ret = NoVal

\* C7 (as stated): get_source_from_name fetches the listing and returns the
\* first non-deleted record with the name, or fails with NotFound when there
\* is none; a failure of the fetch itself is the only other outcome.
C7_FirstMatchOrNotFound ==
    last.op = "get_source_from_name" =>
        /\ GotListing
        /\ ListingDecoded => FirstOrNotFound(last.args[1])

\* C7 (amended): for a non-empty name the above; for the empty name the call
\* fails with InvalidArgument before anything is fetched.
C7_FirstMatchOrNotFound_NonEmpty ==
    last.op = "get_source_from_name" =>
        IF last.args[1] = ""
        THEN last.err = "InvalidArgument" /\ last.reqs = <<>> /\ last.ret = NoVal
        ELSE /\ GotListing
             /\ ListingDecoded => FirstOrNotFound(last.args[1])

\* C7: two non-deleted records share the name and the first one came back.
C7_FirstOfTwoReturned ==
    /\ last.op = "get_source_from_name"
    /\ Cardinality(Named(last.sources, last.args[1])) = 2
    /\ last.err = ""
    /\ last.ret.kind = "record"
    /\ last.ret.body.id = 1

\* The clipped start and end of an observed get_stream_load_reports call,
\* whose arguments are source_id, stream_name, start, end and the second
\* clock reading.
ClippedStart == adjust_date(last.args[3], Now)
ClippedEnd == adjust_date(last.args[4], last.args[5])

\* The sub-intervals C8 describes for [s, e]: [s + k days, min(s + (k+1)
\* days, e)] for k = 0 .. ceil((e - s) / 1 day) - 1.
SubIntervals(s, e) ==
    [k \in 1..((e - s + DayLen - 1) \div DayLen) |->
        <<s + (k - 1) * DayLen,
          IF s + k * DayLen <= e THEN s + k * DayLen ELSE e>>]

\* The time ranges of the load-report requests of the observed call, in the
\* order they were dispatched.
LoadRequestRanges ==
    LET sent == WithField(last.reqs, "kind", "loading-reports")
    IN  [i \in DOMAIN sent |-> <<sent[i].from, sent[i].to>>]

\* C8 (as stated): for a clipped range of at least one whole day,
\* get_stream_load_reports dispatches exactly one load-report request per
\* such sub-interval, in order, and returns the concatenated batches.
C8_OneRequestPerSubInterval ==
    (/\ last.op = "get_stream_load_reports"
     /\ last.args[1] # 0
     /\ Days(ClippedEnd - ClippedStart) >= 1
     /\ last.err \notin {"RemoteError", "DecodeError"})
    => /\ LoadRequestRanges = SubIntervals(ClippedStart, ClippedEnd)
       /\ last.err = ""
       /\ last.ret = [kind |-> "list",
                      body |-> SubIntervals(ClippedStart, ClippedEnd)]

ReportOps == {"get_stream_load_reports", "get_source_load_reports"}

\* C9: when the request for a sub-range (or for a stream) of a report
\* operation fails, the call fails, nothing is returned, and no later
\* sub-range is asked for: the failed get_loads is the last one made.
C9_AllOrNothing ==
    last.op \in ReportOps =>
        \A i \in DOMAIN last.loads :
            last.loads[i].err # "" =>
                /\ last.err = last.loads[i].err
                /\ last.ret = NoVal
                /\ i = Len(last.loads)
                /\ \A j \in DOMAIN last.reqs :
                      last.reqs[j].kind = "loading-reports" =>
                          last.reqs[j].to <= last.loads[i].to

\* C9: a report over more than one day failed on its first sub-range, and
\* the second sub-range was not asked for.
C9_FailedOnFirstSubRange ==
    /\ last.op = "get_stream_load_reports"
    /\ Days(ClippedEnd - ClippedStart) >= 1
    /\ Len(last.loads) = 1
    /\ last.loads[1].err # ""
    /\ last.loads[1].to < ClippedEnd
    /\ last.err # ""
    /\ last.ret = NoVal

\* C10 (as stated): a response to _execute_request with a status outside
\* 200..299 makes the call fail with RemoteError carrying that status, and
\* nothing is returned.
C10_Non2xxIsRemoteError ==
    \A i \in DOMAIN last.reqs :
        (last.reqs[i].kind # "session" /\ ~Is2xx(last.reqs[i].status)) =>
            /\ last.err = "RemoteError"
            /\ last.code = last.reqs[i].status
            /\ last.ret = NoVal

\* C10 (what the code does): a response with a status in 400..599 makes the
\* call fail with RemoteError carrying that status, and nothing is returned.
C10_4xx5xxIsRemoteError ==
    \A i \in DOMAIN last.reqs :
        (last.reqs[i].kind # "session" /\ last.reqs[i].status >= 400) =>
            /\ last.err = "RemoteError"
            /\ last.code = last.reqs[i].status
            /\ last.ret = NoVal

\* C11: set_replication_schedule with both cron_expression and
\* frequency_in_minutes set, or with neither, fails with InvalidArgument and
\* dispatches no request at all.
C11_BadScheduleSendsNothing ==
    (last.op = "set_replication_schedule" /\ last.args[2] = last.args[3]) =>
        /\ last.err = "InvalidArgument"
        /\ last.reqs = <<>>
        /\ last.ret = NoVal

\* C11: a call with both arguments set, on a name that is in the listing,
\* was refused with nothing sent.
C11_BothSetRefused ==
    /\ last.op = "set_replication_schedule"
    /\ last.args[1] \in SourceNames
    /\ last.args[2] /\ last.args[3]
    /\ last.err = "InvalidArgument"
    /\ last.reqs = <<>>

\* C12 (as stated): every builder, called with non-zero identifiers and the
\* arguments the facade passes, returns a request descriptor and raises
\* nothing.
C12_BuildersReturnDescriptor ==
    (/\ last.op = "builder"
     /\ last.args[2] = FacadeKw(last.args[1])
     /\ last.sid # 0
     /\ last.stid # 0)
    => /\ last.err = ""
       /\ last.ret.kind = "descriptor"
       /\ last.reqs = <<>>

\* The horizon at a clock reading, and the later of a date and the horizon.
Horizon(now) == now - MAX_REPORT_DAYS * DayLen

LaterOf(d, h) == IF d >= h THEN d ELSE h

\* C13: adjust_date(d) is the later of d and now - MAX_REPORT_DAYS, and
\* get_stream_load_reports asks for loads only with its start and end so
\* adjusted: no get_loads call and no load-report request carries a time
\* earlier than the horizon.
C13_ClippedToHorizon ==
    /\ last.op = "adjust_date" =>
          last.ret.body = LaterOf(last.args[1], Horizon(last.args[2]))
    /\ last.op = "get_stream_load_reports" =>
          /\ \A i \in DOMAIN last.loads :
                /\ last.loads[i].from >= Horizon(Now)
                /\ last.loads[i].to >= Horizon(Now)
          /\ last.loads # <<>> =>
                /\ last.loads[1].from = LaterOf(last.args[3], Horizon(Now))
                /\ last.loads[1].to <=
                      LaterOf(last.args[4], Horizon(last.args[5]))
          /\ \A j \in Sent({"get"}, {"loading-reports"}) :
                /\ last.reqs[j].from >= Horizon(Now)
                /\ last.reqs[j].to >= Horizon(Now)

\* C13: a report was asked for from a start older than the horizon, and
\* get_loads was called with the horizon as its start.
C13_OldStartClipped ==
    /\ last.op = "get_stream_load_reports"
    /\ last.args[3] < Horizon(Now)
    /\ last.loads # <<>>
    /\ last.loads[1].from = Horizon(Now)

\* The filter's contract for the keys in keys: a None value removes the key,
\* the "null" string becomes an explicit None, any other value is kept.
FilteredAs(arg_dict, payload, keys) ==
    \A k \in DOMAIN arg_dict \cap keys :
        IF arg_dict[k] = None THEN k \notin DOMAIN payload
        ELSE /\ k \in DOMAIN payload
             /\ payload[k] = (IF arg_dict[k] = "null" THEN None ELSE arg_dict[k])

\* The payloads of the pause and unpause builders, when they build one.
PausePayloads ==
    /\ (last.op = "Source.pause" /\ last.err = "") =>
          /\ DOMAIN last.ret.body = {"paused_at"}
          /\ last.ret.body["paused_at"] # None
    /\ (last.op = "Source.unpause" /\ last.err = "") =>
          /\ DOMAIN last.ret.body = {"paused_at"}
          /\ last.ret.body["paused_at"] = None

\* C14 as stated: for every input mapping, a key whose value is null is absent
\* from the filtered payload, a key whose value is the string 'null' is present
\* with an explicit null, and every other key is present with its value
\* unchanged; the unpause update carries paused_at = null and the pause update
\* a non-null paused_at.
C14_FilteredPayload ==
    /\ last.op = "create_filtered_payload" =>
          FilteredAs(last.args[1], last.ret.body, PayloadKeys)
    /\ PausePayloads

\* C14 amended: the same for every key other than 'cls'; the key 'cls' is
\* never in the filtered payload, and the payload has no key the input lacks.
C14_FilteredPayloadExceptCls ==
    /\ last.op = "create_filtered_payload" =>
          /\ FilteredAs(last.args[1], last.ret.body, PayloadKeys \ {"cls"})
          /\ "cls" \notin DOMAIN last.ret.body
          /\ DOMAIN last.ret.body \subseteq DOMAIN last.args[1]
    /\ (last.op = "Source.update" /\ last.err = "") =>
          /\ FilteredAs(last.args[2], last.ret.body, PayloadKeys \ {"cls"})
          /\ "cls" \notin DOMAIN last.ret.body
    /\ PausePayloads

\* C14 witness: a mapping with a null value, the 'null' string and an ordinary
\* value has been filtered to the two keys that stay.
C14_AllThreeCasesFiltered ==
    /\ last.op = "create_filtered_payload"
    /\ DOMAIN last.args[1] = {"paused_at", "name", "schedule"}
    /\ last.args[1]["paused_at"] = "null"
    /\ last.args[1]["name"] = None
    /\ last.args[1]["schedule"] = "x"
    /\ DOMAIN last.ret.body = {"paused_at", "schedule"}
    /\ last.ret.body["paused_at"] = None
    /\ last.ret.body["schedule"] = "x"

\* The records of listing that body keeps: body's records are records of
\* the listing, in listing order and without repetition (the record at
\* position i of a listing has id i).
InListingOrder(body, listing) ==
    /\ \A j \in DOMAIN body :
          /\ body[j].id \in DOMAIN listing
          /\ body[j] = listing[body[j].id]
    /\ \A j, k \in DOMAIN body : j < k => body[j].id < body[k].id

\* C15: list_sources(include_deleted=False) returns exactly the records of
\* the fetched listing whose deleted_at is null, in listing order, none added,
\* dropped or reordered; with include_deleted=True it returns the listing
\* unchanged.
C15_ExactlyTheNonDeleted ==
    (last.op = "list_sources" /\ last.err = "") =>
        /\ GotListing
        /\ last.ret.kind = "list"
        /\ IF last.args[1] THEN last.ret.body = last.sources
           ELSE /\ InListingOrder(last.ret.body, last.sources)
                /\ \A j \in DOMAIN last.ret.body : last.ret.body[j].deleted_at = None
                /\ \A i \in DOMAIN last.sources :
                      last.sources[i].deleted_at = None =>
                          \E j \in DOMAIN last.ret.body : last.ret.body[j] = last.sources[i]

\* C15 witness: a listing whose first record is deleted was fetched without
\* include_deleted, and the records after it came back.
C15_DeletedRecordDropped ==
    /\ last.op = "list_sources"
    /\ last.err = ""
    /\ ~last.args[1]
    /\ last.sources[1].deleted_at # None
    /\ last.sources[Len(last.sources)].deleted_at = None
    /\ Len(last.ret.body) >= 1
    /\ Len(last.ret.body) < Len(last.sources)
    /\ last.ret.body[Len(last.ret.body)] = last.sources[Len(last.sources)]

\* C16 (as stated): for reset_integration and reset_stream the blacklist check
\* runs before the lazy internal login and before the dispatch: on a
\* blacklisted source the call fails with Blacklisted, no POST /session and no
\* DELETE having been sent; only the GETs of the name-lookup listings precede
\* the failure.
C16_BlacklistBeforeLogin ==
    (BlacklistedWrite /\ last.op \in {"reset_integration", "reset_stream"}) =>
        /\ last.err = "Blacklisted"
        /\ Sent({"post"}, {"session"}) = {}
        /\ Sent({"delete"}, {"state", "bookmark"}) = {}
        /\ \A i \in DOMAIN last.reqs :
              /\ last.reqs[i].method = "get"
              /\ last.reqs[i].kind \in {"sources", "streams"}

====
